---- MODULE Spec2Model ----
(***************************************************************************)
(* A model of plugin/snake/__init__.py: the helper library that drives a   *)
(* host editor through command strings and expressions.  The host owns the *)
(* cursor, the active buffer, the mode, the registers and the variables;   *)
(* the library owns one table, _mapped_functions.                          *)
(*                                                                         *)
(* Strings are sequences of one-character (or one-token) strings, so that  *)
(* formatting, escaping and parsing are computed rather than assumed.      *)
(***************************************************************************)
EXTENDS Integers, Sequences, FiniteSets, TLC

VARIABLES
    cursor,      \* host: vim.current.window.cursor, <<row, col>>
    curbuf,      \* host: number of the active buffer
    mode,        \* host: editor mode
    regs,        \* host: register name -> contents
    pc,          \* position of the running library call: idle, body, done
    helper,      \* the library operation that is running or has just ended
    saved,       \* the values the running helper captured on entry
    args,        \* the arguments of the running operation
    entry,       \* the host state when the running operation was entered
    atExit,      \* the host state when the body ended, and whether it raised
    found,       \* host: where the last search() matched, or None
    outcome,     \* how the last operation ended: none, returned, raised
    ret,         \* the value the last operation returned
    heap,        \* Python: address -> the callable object living there
    nextSerial,  \* Python: the number of callable objects created so far
    mapped,      \* the table _mapped_functions: key -> callable
    returnedKeys,\* the keys register_fn has handed out in its return value
    hostBound,   \* host: key embedded in a mapping, abbreviation or
                 \* autocommand -> the callable it was issued for
    hostGlobals, \* host: scoped variable name -> the text assigned to it
    issued       \* the commands the running operation has sent to the host

scopeVars == <<pc, helper, args, saved, entry, atExit, outcome, ret>>
hostVars == <<cursor, curbuf, mode, regs, found>>

pyVars == <<heap, nextSerial, mapped, returnedKeys>>
cmdVars == <<hostBound, hostGlobals>>

vars == <<hostVars, scopeVars, pyVars, cmdVars, issued>>

\* ------------------------------------------------------------------ bounds
MaxRow == 2
MaxCol == 1
MaxBuf == 3
MaxAddr == 2
MaxSerial == 3

\* --------------------------------------------------------------- constants
NORMAL_MODE == "n"
VISUAL_MODE == "v"
INSERT_MODE == "i"

\* the sentinel, kept as one token of text
EMPTY_REGISTER == <<"Wt4jT@%jfeUf%@+3Vrrh6=Y92xzpasVyM55ghTy+48&k35BNXwxyGa8EFq">>

None == <<"None">>

\* the registers of the model: a named one and the two special ones
RegNames == {"a", "0", "\""}

\* the texts a user or a body puts into a register
RegTexts == {<<"x">>, <<"\\", "\"">>}

Pos == (1..MaxRow) \X (0..MaxCol)
Bufs == 1..MaxBuf
Modes == {NORMAL_MODE, VISUAL_MODE, INSERT_MODE}

\* ------------------------------------------------------- number <-> string
Digit(d) == CASE d = 0 -> "0" [] d = 1 -> "1" [] d = 2 -> "2" [] d = 3 -> "3"
              [] d = 4 -> "4" [] d = 5 -> "5" [] d = 6 -> "6" [] d = 7 -> "7"
              [] d = 8 -> "8" [] d = 9 -> "9"

DigitVal(c) == CASE c = "0" -> 0 [] c = "1" -> 1 [] c = "2" -> 2 [] c = "3" -> 3
                 [] c = "4" -> 4 [] c = "5" -> 5 [] c = "6" -> 6 [] c = "7" -> 7
                 [] c = "8" -> 8 [] c = "9" -> 9

\* "%d" % n and "%s" % n for a non-negative integer
RECURSIVE FormatInt(_)
FormatInt(n) == IF n < 10 THEN <<Digit(n)>>
                ELSE Append(FormatInt(n \div 10), Digit(n % 10))

\* int(s) for a string of decimal digits
RECURSIVE ParseInt(_)
ParseInt(s) == IF Len(s) = 0 THEN 0
               ELSE 10 * ParseInt(SubSeq(s, 1, Len(s) - 1)) + DigitVal(s[Len(s)])

\* ------------------------------------------------------------ host access
get_cursor_position == cursor

\* the position the host holds after vim.current.window.cursor = p
set_cursor_position(p) == p

\* vim.eval("bufnr('%')"): the host answers with the number as a string
HostBufnr == FormatInt(curbuf)

get_current_buffer == ParseInt(HostBufnr)

\* the command set_buffer sends: "buffer %d" % buf
set_buffer(buf) == <<"buffer", " ">> \o FormatInt(buf)

\* the buffer the host shows after :buffer N
HostExBuffer(cmd) == ParseInt(SubSeq(cmd, 3, Len(cmd)))

HostState == [cursor |-> cursor, curbuf |-> curbuf, mode |-> mode, regs |-> regs]

NoSaved == [p |-> <<1, 0>>, old_buffer |-> 1, old_regs |-> <<>>]

NoArgs == [move |-> TRUE, wrap |-> TRUE, backwards |-> FALSE, regs |-> <<>>]

\* the host as the editor starts
InitHost == [cursor |-> <<1, 0>>, curbuf |-> 1, mode |-> NORMAL_MODE,
             regs |-> [r \in RegNames |-> <<"x">>]]

NoExit == [host |-> InitHost, raised |-> FALSE]

\* the addresses Python places callables at
Addr == 1..MaxAddr

\* no object lives at an address
NoObj == [serial |-> 0, kind |-> "free", target |-> 0]

\* -------------------------------------------------------------------- Init
Init ==
    /\ cursor = InitHost.cursor
    /\ curbuf = InitHost.curbuf
    /\ mode = InitHost.mode
    /\ regs = InitHost.regs
    /\ found = None
    /\ pc = "idle"
    /\ helper = "none"
    /\ args = NoArgs
    /\ saved = NoSaved
    /\ entry = InitHost
    /\ atExit = NoExit
    /\ outcome = "none"
    /\ ret = None
    /\ heap = [a \in Addr |-> NoObj]
    /\ nextSerial = 0
    /\ mapped = <<>>
    /\ returnedKeys = {}
    /\ hostBound = <<>>
    /\ hostGlobals = <<>>
    /\ issued = <<>>

\* the bookkeeping of entering an operation named h with arguments a
Enters(h, a) ==
    /\ pc = "idle"
    /\ pc' = "body"
    /\ helper' = h
    /\ args' = a
    /\ entry' = HostState
    /\ atExit' = NoExit
    /\ outcome' = "none"
    /\ ret' = None
    /\ UNCHANGED <<pyVars, cmdVars, issued>>

\* the body of helper h ends, by raising if exc; the exception, if any,
\* reaches the caller once the exit code has run
BodyEnds(h, exc) ==
    /\ pc = "body" /\ helper = h
    /\ pc' = "done"
    /\ atExit' = [host |-> HostState, raised |-> exc]
    /\ outcome' = IF exc THEN "raised" ELSE "returned"
    /\ UNCHANGED <<helper, args, saved, entry, ret, pyVars, cmdVars, issued>>

\* ------------------------------------------------- preserve_cursor / buffer
\* with preserve_cursor(): the code before the yield
PreserveCursorEnter ==
    /\ Enters("preserve_cursor", NoArgs)
    /\ saved' = [saved EXCEPT !.p = get_cursor_position]
    /\ UNCHANGED hostVars

\* a preserve_cursor written without try/finally: no restore on an exception
PreserveCursorExitNoFinally ==
    \E exc \in BOOLEAN :
        /\ BodyEnds("preserve_cursor", exc)
        /\ cursor' = IF exc THEN cursor ELSE set_cursor_position(saved.p)
        /\ UNCHANGED <<curbuf, mode, regs, found>>

\* the body ends, normally or by raising, and the finally clause runs
PreserveCursorExit ==
    \E exc \in BOOLEAN :
        /\ BodyEnds("preserve_cursor", exc)
        /\ cursor' = set_cursor_position(saved.p)
        /\ UNCHANGED <<curbuf, mode, regs, found>>

PreserveBufferEnter ==
    /\ Enters("preserve_buffer", NoArgs)
    /\ saved' = [saved EXCEPT !.old_buffer = get_current_buffer]
    /\ UNCHANGED hostVars

PreserveBufferExit ==
    \E exc \in BOOLEAN :
        /\ BodyEnds("preserve_buffer", exc)
        /\ curbuf' = HostExBuffer(set_buffer(saved.old_buffer))
        /\ UNCHANGED <<cursor, mode, regs, found>>

\* one step of the body of a with block: it moves the cursor
BodyMovesCursor ==
    /\ pc = "body"
    /\ \E p \in Pos : cursor' = p
    /\ UNCHANGED <<curbuf, mode, regs, found, scopeVars, pyVars, cmdVars, issued>>

\* one step of the body of a with block: it switches the buffer
BodySwitchesBuffer ==
    /\ pc = "body"
    /\ \E b \in Bufs : curbuf' = b
    /\ UNCHANGED <<cursor, mode, regs, found, scopeVars, pyVars, cmdVars, issued>>

\* ------------------------------------------------------------------ search
\* the flags search() builds from wrap and backwards
SearchFlags(wrap, backwards) ==
    <<IF wrap THEN "w" ELSE "W">> \o (IF backwards THEN <<"b">> ELSE <<>>)

Before(p, q) == p[1] < q[1] \/ (p[1] = q[1] /\ p[2] < q[2])

\* host: the positions the built-in search() may match from cur with flags:
\* anywhere when wrapping, else only beyond the cursor in its direction
HostSearchMatches(flags, cur) ==
    {m \in Pos : \/ flags[1] = "w"
                 \/ (Len(flags) = 1 /\ Before(cur, m))
                 \/ (Len(flags) = 2 /\ Before(m, cur))}

\* fn() of search: the host's answer is the line of the match, "0" for none
SearchFn(answer, cur) == IF ParseInt(answer) # 0 THEN cur ELSE None

\* a search that reads the position only after the cursor was put back
SearchReadsAfterRestore(move, answer, cur) ==
    /\ pc = "idle"
    /\ pc' = "done"
    /\ helper' = "search"
    /\ entry' = HostState
    /\ atExit' = [host |-> [HostState EXCEPT !.cursor = cur], raised |-> FALSE]
    /\ outcome' = "returned"
    /\ cursor' = IF move THEN cur ELSE set_cursor_position(get_cursor_position)
    /\ ret' = SearchFn(answer, cursor')
    /\ UNCHANGED <<curbuf, mode, regs, saved, pyVars, cmdVars, issued>>

\* the search wrapper, the host having answered and left its cursor at cur
SearchEnds(move, answer, cur) ==
    /\ pc = "idle"
    /\ pc' = "done"
    /\ helper' = "search"
    /\ entry' = HostState
    /\ atExit' = [host |-> [HostState EXCEPT !.cursor = cur], raised |-> FALSE]
    /\ outcome' = "returned"
    /\ ret' = SearchFn(answer, cur)
    /\ cursor' = IF move THEN cur ELSE set_cursor_position(get_cursor_position)
    /\ UNCHANGED <<curbuf, mode, regs, saved, pyVars, cmdVars, issued>>

\* search(s, wrap, backwards, move) with a match at m
SearchMatch ==
    \E move, wrap, backwards \in BOOLEAN :
      \E m \in HostSearchMatches(SearchFlags(wrap, backwards), cursor) :
        /\ args' = [NoArgs EXCEPT !.move = move, !.wrap = wrap,
                                  !.backwards = backwards]
        /\ found' = m
        /\ SearchEnds(move, FormatInt(m[1]), m)

\* search(s, wrap, backwards, move) with no match: the host answers 0 and
\* leaves its cursor alone
SearchNoMatch ==
    \E move, wrap, backwards \in BOOLEAN :
        /\ args' = [NoArgs EXCEPT !.move = move, !.wrap = wrap,
                                  !.backwards = backwards]
        /\ found' = None
        /\ SearchEnds(move, FormatInt(0), cursor)

\* the operation's frame is gone as its caller goes on
FrameDropped ==
    /\ pc = "done"
    /\ pc' = "idle"
    /\ helper' = "none"
    /\ args' = NoArgs
    /\ saved' = NoSaved
    /\ entry' = InitHost
    /\ atExit' = NoExit
    /\ outcome' = "none"
    /\ ret' = None
    /\ found' = None
    /\ issued' = <<>>
    /\ UNCHANGED <<pyVars, cmdVars>>

\* the caller goes on after the operation, and before the next library call
\* the user edits: the cursor and the active buffer are anywhere
CallerMovesOn ==
    /\ FrameDropped
    /\ \E p \in Pos : cursor' = p
    /\ \E b \in Bufs : curbuf' = b
    /\ UNCHANGED <<mode, regs>>

NextScope ==
    \/ PreserveCursorEnter
    \/ PreserveCursorExit
    \/ PreserveBufferEnter
    \/ PreserveBufferExit
    \/ BodyMovesCursor
    \/ BodySwitchesBuffer
    \/ SearchMatch
    \/ SearchNoMatch
    \/ CallerMovesOn

SpecScope == Init /\ [][NextScope]_vars

\* --------------------------------------------------------------- registers
\* s.replace('\\', '\\\\') then s.replace('"', '\\"')
RECURSIVE escape_string_dq(_)
escape_string_dq(s) ==
    IF Len(s) = 0 THEN <<>>
    ELSE (IF s[1] \in {"\\", "\""} THEN <<"\\", s[1]>> ELSE <<s[1]>>)
         \o escape_string_dq(Tail(s))

\* host: the text a double-quoted literal stands for; a backslash takes the
\* next character as it is, a bare quote ends the literal too early
RECURSIVE HostDqText(_)
HostDqText(lit) ==
    IF Len(lit) = 0 THEN <<>>
    ELSE IF lit[1] = "\\" /\ Len(lit) >= 2
         THEN <<lit[2]>> \o HostDqText(SubSeq(lit, 3, Len(lit)))
    ELSE IF lit[1] = "\"" THEN <<>>
    ELSE <<lit[1]>> \o HostDqText(Tail(lit))

\* vim.eval("@%s" % name), with the sentinel read as None
get_register(R, name) == IF R[name] = EMPTY_REGISTER THEN None ELSE R[name]

\* the registers after command('let @%s = "%s"' % (name, escape_string_dq(val)))
set_register(R, name, val) ==
    [R EXCEPT ![name] = HostDqText(escape_string_dq(val))]

clear_register(R, name) == set_register(R, name, EMPTY_REGISTER)

special_regs == <<"0", "\"">>

\* the first loop of preserve_registers over names: each register is read
\* into old_regs and then cleared; st is [R, old]
RECURSIVE SaveAndClear(_, _)
SaveAndClear(st, names) ==
    IF Len(names) = 0 THEN st
    ELSE SaveAndClear(
             [R |-> clear_register(st.R, names[1]),
              old |-> (names[1] :> get_register(st.R, names[1])) @@ st.old],
             Tail(names))

\* the second loop: the special registers are read and not cleared
RECURSIVE SaveOnly(_, _)
SaveOnly(st, names) ==
    IF Len(names) = 0 THEN st
    ELSE SaveOnly(
             [R |-> st.R,
              old |-> (names[1] :> get_register(st.R, names[1])) @@ st.old],
             Tail(names))

\* the finally clause: each register with saved contents is set back
RECURSIVE RestoreRegisters(_, _, _)
RestoreRegisters(R, old, names) ==
    IF Len(names) = 0 THEN R
    ELSE RestoreRegisters(
             IF old[names[1]] # None
             THEN set_register(R, names[1], old[names[1]]) ELSE R,
             old, Tail(names))

\* the registers and old_regs once preserve_registers(*names) reaches its yield
preserve_registers_enter(R, names) ==
    SaveOnly(SaveAndClear([R |-> R, old |-> <<>>], names), special_regs)

\* the registers once preserve_registers(*names) has left its finally clause
preserve_registers_exit(R, old, names) ==
    RestoreRegisters(R, old, names \o special_regs)

\* the argument tuples preserve_registers is called with
RegArgs == {<<>>, <<"a">>}

PreserveRegistersEnter ==
    \E names \in RegArgs :
        /\ Enters("preserve_registers", [NoArgs EXCEPT !.regs = names])
        /\ saved' = [saved EXCEPT
                       !.old_regs = preserve_registers_enter(regs, names).old]
        /\ regs' = preserve_registers_enter(regs, names).R
        /\ UNCHANGED <<cursor, curbuf, mode, found>>

PreserveRegistersExit ==
    \E exc \in BOOLEAN :
        /\ BodyEnds("preserve_registers", exc)
        /\ regs' = preserve_registers_exit(regs, saved.old_regs, args.regs)
        /\ UNCHANGED <<cursor, curbuf, mode, found>>

\* ------------------------------------------------------------ preserve_mode
\* the mode after preserve_mode's exit code: the generator returns right
\* after its yield, the restoring code below it is never reached
preserve_mode_exit(m) == m

\* ----------------------------------------------------------- preserve_state
\* a function decorated with preserve_state() is called: the three context
\* managers are entered in order, then the function runs as the body
PreserveStateEnter ==
    /\ Enters("preserve_state", NoArgs)
    /\ saved' = [saved EXCEPT
                   !.p = get_cursor_position,
                   !.old_regs = preserve_registers_enter(regs, <<>>).old]
    /\ regs' = preserve_registers_enter(regs, <<>>).R
    /\ UNCHANGED <<cursor, curbuf, mode, found>>

\* the function returns or raises: the context managers exit in reverse
PreserveStateExit ==
    \E exc \in BOOLEAN :
        /\ BodyEnds("preserve_state", exc)
        /\ regs' = preserve_registers_exit(regs, saved.old_regs, <<>>)
        /\ mode' = preserve_mode_exit(mode)
        /\ cursor' = set_cursor_position(saved.p)
        /\ UNCHANGED <<curbuf, found>>

\* the user, or the body of a with block, writes a register
SetRegister ==
    /\ pc \in {"idle", "body"}
    /\ \E name \in RegNames, val \in RegTexts :
           regs' = set_register(regs, name, val)
    /\ UNCHANGED <<cursor, curbuf, mode, found, scopeVars, pyVars, cmdVars, issued>>

\* the user, or the body of a with block, clears a register
ClearRegister ==
    /\ pc \in {"idle", "body"}
    /\ \E name \in RegNames : regs' = clear_register(regs, name)
    /\ UNCHANGED <<cursor, curbuf, mode, found, scopeVars, pyVars, cmdVars, issued>>

\* the body of a with block leaves the editor in another mode
BodyChangesMode ==
    /\ pc = "body"
    /\ \E m \in Modes : mode' = m
    /\ UNCHANGED <<cursor, curbuf, regs, found, scopeVars, pyVars, cmdVars, issued>>

\* the caller goes on after the operation
CallerContinues ==
    /\ FrameDropped
    /\ UNCHANGED <<cursor, curbuf, mode, regs>>

NextRegs ==
    \/ PreserveRegistersEnter
    \/ PreserveRegistersExit
    \/ PreserveStateEnter
    \/ PreserveStateExit
    \/ SetRegister
    \/ ClearRegister
    \/ BodyChangesMode
    \/ BodyMovesCursor
    \/ CallerContinues

SpecRegs == Init /\ [][NextRegs]_vars

\* ------------------------------------------------- operations of one step
\* an operation named h, called with a, ends with out and r after sending cmds
OpEnds(h, a, out, r, cmds) ==
    /\ pc = "idle"
    /\ pc' = "done"
    /\ helper' = h
    /\ args' = a
    /\ outcome' = out
    /\ ret' = r
    /\ issued' = cmds
    /\ UNCHANGED <<saved, entry, atExit, hostVars>>

\* the first place of token tok in seq, 0 when it is not there
FirstIndex(seq, tok) ==
    IF \E i \in 1..Len(seq) : seq[i] = tok
    THEN CHOOSE i \in 1..Len(seq) :
             seq[i] = tok /\ \A j \in 1..(i - 1) : seq[j] # tok
    ELSE 0

\* needle in text, for strings
Contains(text, needle) ==
    \E i \in 0..(Len(text) - Len(needle)) :
        SubSeq(text, i + 1, i + Len(needle)) = needle

\* s.replace('\\', '\\\\') then s.replace("'", "\\'")
RECURSIVE escape_string_sq(_)
escape_string_sq(s) ==
    IF Len(s) = 0 THEN <<>>
    ELSE (IF s[1] \in {"\\", "'"} THEN <<"\\", s[1]>> ELSE <<s[1]>>)
         \o escape_string_sq(Tail(s))

\* --------------------------------------------------- let / get_global
NS_GLOBAL == "g"
NS_BUFFER == "b"

\* the values handed to let: [type, v]
LetValues == {[type |-> "int", v |-> <<"7">>], [type |-> "str", v |-> <<"v">>],
              [type |-> "str", v |-> <<"\\">>]}

\* a string is quoted and escaped, anything else goes into the command as
\* "%s" prints it
serialize_obj(obj) ==
    IF obj.type = "str" THEN <<"'">> \o escape_string_sq(obj.v) \o <<"'">>
    ELSE obj.v

\* namespace + "_" + name when a namespace is given
Namespaced(name, namespace) ==
    IF namespace # <<>> THEN namespace \o <<"_">> \o name ELSE name

\* the command of let_variable: "let %s:%s=%s" % (scope, name, value)
let_variable(name, value, namespace, scope) ==
    <<"let ", scope, ":">> \o Namespaced(name, namespace) \o <<"=">>
        \o serialize_obj(value)

\* the command of let(name, value, namespace)
let(name, value, namespace) == let_variable(name, value, namespace, NS_GLOBAL)

\* the command of let_buffer_local(name, value, namespace)
let_buffer_local(name, value, namespace) ==
    let_variable(name, value, namespace, NS_BUFFER)

\* host: the value of a literal: the text between single quotes as it
\* stands, a number as it stands
HostLiteral(text) ==
    IF text[1] = "'" THEN SubSeq(text, 2, Len(text) - 1) ELSE text

\* host: the variables after :let scope:name=literal
HostLet(G, cmd) ==
    (SubSeq(cmd, 2, FirstIndex(cmd, "=") - 1)
        :> HostLiteral(SubSeq(cmd, FirstIndex(cmd, "=") + 1, Len(cmd)))) @@ G

\* host: vim.eval(expr) for a variable reference: an undefined variable is
\* E121; text after the reference is E15, reported with the whole expression
HostEval(G, expr) ==
    LET sp == FirstIndex(expr, " ")
        ref == IF sp = 0 THEN expr ELSE SubSeq(expr, 1, sp - 1)
    IN  IF ref \notin DOMAIN G
        THEN [ok |-> FALSE, code |-> "E121", val |-> <<>>,
              msg |-> <<"Vim:", "E121", ": Undefined variable: ">> \o ref]
        ELSE IF sp # 0
        THEN [ok |-> FALSE, code |-> "E15", val |-> <<>>,
              msg |-> <<"Vim:", "E15", ": Invalid expression: ">> \o expr]
        ELSE [ok |-> TRUE, code |-> "", val |-> G[ref], msg |-> <<>>]

\* get_global once the host has answered h: [outcome, ret]
get_global(h) ==
    IF h.ok THEN [outcome |-> "returned", ret |-> h.val]
    ELSE IF Contains(h.msg, <<"Vim:", "E121">>)
         THEN [outcome |-> "returned", ret |-> None]
    ELSE [outcome |-> "raised", ret |-> h.msg]

\* the names and namespaces of the model
LetNames == {<<"foo">>}
GetNames == LetNames \cup {<<"foo", " ", "junk">>, <<"foo", " ", "Vim:", "E121">>}
Namespaces == {<<>>, <<"ns">>}

\* an operation h that sends the let command cmd
LetOp(h, cmd) ==
    /\ OpEnds(h, [cmd |-> cmd], "returned", None, <<cmd>>)
    /\ hostGlobals' = HostLet(hostGlobals, cmd)
    /\ UNCHANGED <<pyVars, hostBound>>

Let ==
    \E name \in LetNames, value \in LetValues, namespace \in Namespaces :
        LetOp("let", let(name, value, namespace))

LetBufferLocal ==
    \E name \in LetNames, value \in LetValues, namespace \in Namespaces :
        LetOp("let_buffer_local", let_buffer_local(name, value, namespace))

GetGlobal ==
    \E name \in GetNames, namespace \in Namespaces :
        LET h == HostEval(hostGlobals,
                          <<"g", ":">> \o Namespaced(name, namespace))
        IN  /\ OpEnds("get_global",
                      [name |-> name, namespace |-> namespace, host |-> h],
                      get_global(h).outcome, get_global(h).ret, <<>>)
            /\ UNCHANGED <<pyVars, cmdVars>>

NextVars ==
    \/ Let
    \/ LetBufferLocal
    \/ GetGlobal
    \/ CallerContinues

SpecVars == Init /\ [][NextVars]_vars

\* ------------------------------------------------------ Python callables
\* id(fn): the address of the object, a multiple of the allocator's alignment
Id(a) == 8 * a

FreeAddrs == {a \in Addr : heap[a] = NoObj}

\* the functions the user has defined and still holds
UserFns == {a \in Addr : heap[a].kind = "user"}

\* the next callable created: a user's function, the wrapped() closure of
\* key_map over old_fn, or partial(fn, ctx) of file_is
NewObj(kind, target) ==
    [serial |-> nextSerial + 1, kind |-> kind, target |-> target]

\* something of the library holds the object at a: the table, or a closure
\* or partial that is itself alive
Referenced(a) ==
    \/ \E k \in DOMAIN mapped : mapped[k] = heap[a]
    \/ \E b \in Addr : heap[b].kind \in {"wrapped", "partial"}
                       /\ heap[b].target = a

\* what fn() gives for a registered callable: wrapped() has no return value,
\* partial(fn, ctx)() gives what fn gives
CallResult(obj) ==
    CASE obj.kind = "user" -> <<"result of", obj.serial>>
      [] obj.kind = "wrapped" -> None
      [] obj.kind = "partial" -> <<"result of", heap[obj.target].serial>>

\* the user's script defines a function
UserDefinesFunction ==
    /\ pc = "idle"
    /\ nextSerial < MaxSerial
    /\ \E a \in FreeAddrs : heap' = [heap EXCEPT ![a] = NewObj("user", 0)]
    /\ nextSerial' = nextSerial + 1
    /\ UNCHANGED <<mapped, returnedKeys, cmdVars, issued, hostVars, scopeVars>>

\* Python frees a function nothing refers to any more; its address, and so
\* its id, may go to the next object
PythonFrees ==
    /\ pc = "idle"
    /\ \E a \in Addr :
         /\ heap[a] # NoObj /\ ~Referenced(a)
         /\ heap' = [heap EXCEPT ![a] = NoObj]
    /\ UNCHANGED <<nextSerial, mapped, returnedKeys, cmdVars, issued,
                   hostVars, scopeVars>>

\* --------------------------------------- register_fn / dispatch
\* a register_fn that hands out the call and stores nothing
register_fn_forgets(tbl, fn_key, fn) == tbl

\* _mapped_functions after register_fn: _mapped_functions[fn_key] = fn
register_fn_table(tbl, fn_key, fn) == (fn_key :> fn) @@ tbl

\* what register_fn returns: "snake.dispatch_mapped_function(%s)" % fn_key
register_fn(fn_key) ==
    <<"snake.dispatch_mapped_function(">> \o FormatInt(fn_key) \o <<")">>

\* host: the key in the Python call a command carries
HostEmbeddedKey(cmd) ==
    LET i == FirstIndex(cmd, "snake.dispatch_mapped_function(")
        rest == SubSeq(cmd, i + 1, Len(cmd))
    IN  ParseInt(SubSeq(rest, 1, FirstIndex(rest, ")") - 1))

\* the library registers obj, living at a, and sends cmds, of which cmd
\* carries the call; the host keeps cmd
RegistersAndSends(h, a, obj, cmd, cmds) ==
    /\ mapped' = register_fn_table(mapped, Id(a), obj)
    /\ returnedKeys' = returnedKeys \cup {Id(a)}
    /\ hostBound' = (HostEmbeddedKey(cmd) :> obj) @@ hostBound
    /\ OpEnds(h, [fn |-> obj], "returned", None, cmds)
    /\ UNCHANGED hostGlobals

\* an operation that only sends cmd
Sends(h, cmd) ==
    /\ OpEnds(h, [fn |-> NoObj], "returned", None, <<cmd>>)
    /\ UNCHANGED <<pyVars, cmdVars>>

\* a dispatch that drops the entry once it has called it
DispatchAndForget(key) ==
    /\ IF key \in DOMAIN mapped
       THEN OpEnds("dispatch", [key |-> key], "returned",
                   [called |-> mapped[key], value |-> CallResult(mapped[key])],
                   <<>>)
       ELSE OpEnds("dispatch", [key |-> key], "raised",
                   <<"unable to find mapped function">>, <<>>)
    /\ mapped' = [k \in DOMAIN mapped \ {key} |-> mapped[k]]
    /\ UNCHANGED <<heap, nextSerial, returnedKeys, cmdVars>>

\* dispatch_mapped_function(key)
Dispatch(key) ==
    /\ IF key \in DOMAIN mapped
       THEN OpEnds("dispatch", [key |-> key], "returned",
                   [called |-> mapped[key], value |-> CallResult(mapped[key])],
                   <<>>)
       ELSE OpEnds("dispatch", [key |-> key], "raised",
                   <<"unable to find mapped function">>, <<>>)
    /\ UNCHANGED <<pyVars, cmdVars>>

\* the host runs the call of a mapping, an abbreviation or an autocommand
HostDispatches == \E key \in DOMAIN hostBound : Dispatch(key)

\* the user's script calls dispatch_mapped_function with a key of its own
UserDispatches == \E key \in {Id(a) : a \in Addr} \cup {0} : Dispatch(key)

\* ------------------------------------------------------------------ abbrev
\* the command of abbrev for the text expansion
abbrev(word, expansion, local) ==
    <<"iabbrev">> \o (IF local THEN <<" <buffer>">> ELSE <<>>)
        \o <<" ">> \o word \o <<" ">> \o expansion

\* the expansion abbrev builds for a callable
abbrev_expansion(fn_str) ==
    <<"<C-r>=pyeval('">> \o escape_string_sq(fn_str) \o <<"')<CR>">>

AbbrevCallable(h, a, local) ==
    LET cmd == abbrev(<<"w">>, abbrev_expansion(register_fn(Id(a))), local)
    IN  /\ RegistersAndSends(h, a, heap[a], cmd, <<cmd>>)
        /\ UNCHANGED <<heap, nextSerial>>

AbbrevString(h, local) == Sends(h, abbrev(<<"w">>, <<"word">>, local))

Abbrev ==
    \E local \in BOOLEAN :
        \/ \E a \in UserFns : AbbrevCallable("abbrev", a, local)
        \/ AbbrevString("abbrev", local)

\* ----------------------------------------------------------------- key_map
MapModes == {NORMAL_MODE, VISUAL_MODE}

\* map_command of key_map
key_map_command(m, recursive, local) ==
    (IF m # "" THEN <<m>> ELSE <<>>)
        \o (IF ~recursive THEN <<"nore">> ELSE <<>>)
        \o <<"map">>
        \o (IF local THEN <<" <buffer>">> ELSE <<>>)

\* the command of key_map for a callable
key_map_callable(map_command, key, call) ==
    map_command \o <<" <silent> ">> \o key \o <<" :python ">> \o call
        \o <<"<CR>">>

\* the command of key_map for a string
key_map_string(map_command, key, rhs) ==
    map_command \o <<" ">> \o key \o <<" ">> \o rhs

\* key_map with a callable, in a mode other than visual: fn is registered
KeyMapCallable(h, a, m, recursive, local) ==
    LET cmd == key_map_callable(key_map_command(m, recursive, local),
                                <<"<F2>">>, register_fn(Id(a)))
    IN  /\ m # VISUAL_MODE
        /\ RegistersAndSends(h, a, heap[a], cmd, <<cmd>>)
        /\ UNCHANGED <<heap, nextSerial>>

\* key_map with a callable in visual mode: the closure wrapped() is created
\* at w and registered in fn's place
KeyMapVisual(h, a, w, recursive, local) ==
    LET cmd == key_map_callable(key_map_command(VISUAL_MODE, recursive, local),
                                <<"<F2>">>, register_fn(Id(w)))
    IN  /\ nextSerial < MaxSerial
        /\ heap' = [heap EXCEPT ![w] = NewObj("wrapped", a)]
        /\ nextSerial' = nextSerial + 1
        /\ RegistersAndSends(h, w, NewObj("wrapped", a), cmd, <<cmd>>)

KeyMapString(h, m, recursive, local) ==
    Sends(h, key_map_string(key_map_command(m, recursive, local),
                            <<"<F2>">>, <<":w<CR>">>))

KeyMap ==
    \E recursive, local \in BOOLEAN :
        \/ \E a \in UserFns, m \in MapModes :
               KeyMapCallable("key_map", a, m, recursive, local)
        \/ \E a \in UserFns, w \in FreeAddrs :
               KeyMapVisual("key_map", a, w, recursive, local)
        \/ \E m \in MapModes : KeyMapString("key_map", m, recursive, local)

\* ----------------------------------------------------------------- file_is
\* inspect.getsourcefile(fn) + ":" + fn.__name__
generate_autocommand_name(fn) == <<"vimrc.py", ":", "fn">> \o FormatInt(fn.serial)

\* file_is(filetype)(fn): partial(fn, ctx) is created at w and registered
FileIs ==
    \E a \in UserFns, w \in FreeAddrs :
        LET call == register_fn(Id(w))
            au == <<"autocmd FileType ">> \o <<"python">> \o <<" :python ">>
                      \o call
        IN  /\ nextSerial < MaxSerial
            /\ heap' = [heap EXCEPT ![w] = NewObj("partial", a)]
            /\ nextSerial' = nextSerial + 1
            /\ RegistersAndSends("file_is", w, NewObj("partial", a), au,
                   << <<"augroup ">> \o generate_autocommand_name(heap[a]),
                      <<"autocmd!">>, au, <<"augroup END">> >>)

\* ------------------------------------------------------------- set_option
\* the command of set_option(name, value, local)
set_option(name, value, local) ==
    <<IF local THEN "setlocal" ELSE "set">> \o <<" ">> \o name
        \o (IF value # None THEN <<"=">> \o value ELSE <<>>)

OptionValues == {None, <<"4">>}

\* ------------------------------------------------------ AutoCommandContext
\* the parameters each wrapped function declares
abbrev_params == {"word", "expansion", "local"}
let_params == {"name", "value", "namespace"}
set_option_params == {"name", "value", "local"}
key_map_params == {"key", "maybe_fn", "mode", "recursive", "local"}

\* partial(f, kw=v)(*args): Python binds kw only if f declares it
AcceptsKeyword(params, kw) == kw \in params

\* the call raises TypeError before the function runs
RaisesTypeError(h) ==
    /\ OpEnds(h, [fn |-> NoObj], "raised", <<"TypeError">>, <<>>)
    /\ UNCHANGED <<pyVars, cmdVars>>

\* ctx.abbrev: partial(abbrev, local=True)
CtxAbbrev ==
    IF AcceptsKeyword(abbrev_params, "local")
    THEN \/ \E a \in UserFns : AbbrevCallable("ctx.abbrev", a, TRUE)
         \/ AbbrevString("ctx.abbrev", TRUE)
    ELSE RaisesTypeError("ctx.abbrev")

\* ctx.let: partial(let, scope=NS_BUFFER)
CtxLet ==
    IF AcceptsKeyword(let_params, "scope")
    THEN \E name \in LetNames, value \in LetValues :
             LetOp("ctx.let", let_variable(name, value, <<>>, NS_BUFFER))
    ELSE RaisesTypeError("ctx.let")

\* ctx.set_option: partial(set_option, local=True)
CtxSetOption ==
    IF AcceptsKeyword(set_option_params, "local")
    THEN \E value \in OptionValues :
             Sends("ctx.set_option", set_option(<<"sw">>, value, TRUE))
    ELSE RaisesTypeError("ctx.set_option")

\* ctx.key_map: partial(key_map, local=True)
CtxKeyMap ==
    IF AcceptsKeyword(key_map_params, "local")
    THEN \E recursive \in BOOLEAN :
           \/ \E a \in UserFns, m \in MapModes :
                  KeyMapCallable("ctx.key_map", a, m, recursive, TRUE)
           \/ \E a \in UserFns, w \in FreeAddrs :
                  KeyMapVisual("ctx.key_map", a, w, recursive, TRUE)
           \/ \E m \in MapModes : KeyMapString("ctx.key_map", m, recursive, TRUE)
    ELSE RaisesTypeError("ctx.key_map")

NextDispatch ==
    \/ UserDefinesFunction
    \/ PythonFrees
    \/ Abbrev
    \/ KeyMap
    \/ FileIs
    \/ CtxAbbrev
    \/ CtxLet
    \/ CtxSetOption
    \/ CtxKeyMap
    \/ HostDispatches
    \/ UserDispatches
    \/ CallerContinues

SpecDispatch == Init /\ [][NextDispatch]_vars

\* C1: when preserve_cursor / preserve_buffer has exited, the cursor / the
\* active buffer is the one of entry, whatever the body left and however it
\* ended, and the caller sees the body's exception exactly when it raised one.
C1_ScopedRestore ==
    pc = "done" =>
        /\ helper = "preserve_cursor" => cursor = entry.cursor
        /\ helper = "preserve_buffer" => curbuf = entry.curbuf
        /\ helper \in {"preserve_cursor", "preserve_buffer"} =>
               (outcome = "raised" <=> atExit.raised)

\* preserve_cursor has exited after a body that moved the cursor, switched
\* the buffer and raised
C1_Witness ==
    /\ pc = "done" /\ helper = "preserve_cursor" /\ outcome = "raised"
    /\ atExit.host.cursor # entry.cursor /\ cursor = entry.cursor
    /\ atExit.host.curbuf # entry.curbuf

\* C7: search returns the position of the host's match, or None without one;
\* with move=False the cursor ends where it was; with move=True and a match
\* the cursor ends on the match.
C7_Search ==
    (pc = "done" /\ helper = "search") =>
        /\ ret = found
        /\ ~args.move => cursor = entry.cursor
        /\ (args.move /\ found # None) => cursor = found

\* a search with move=False has matched away from the cursor
C7_Witness ==
    /\ pc = "done" /\ helper = "search" /\ ~args.move
    /\ found # None /\ found # entry.cursor
    /\ ret = found /\ cursor = entry.cursor

\* C2: when preserve_registers(*regs) has exited, each register named in regs
\* and the registers 0 and " hold the contents they held on entry, whatever
\* those were and however the body ended.
C2_RegistersRestored ==
    (pc = "done" /\ helper = "preserve_registers") =>
        \A i \in 1..Len(args.regs \o special_regs) :
            regs[(args.regs \o special_regs)[i]]
                = entry.regs[(args.regs \o special_regs)[i]]

\* C6: when a function wrapped by preserve_state() has returned or raised, the
\* cursor, the mode and the registers " and 0 are those of before the call.
C6_StatePreserved ==
    (pc = "done" /\ helper = "preserve_state") =>
        /\ cursor = entry.cursor
        /\ mode = entry.mode
        /\ regs["\""] = entry.regs["\""]
        /\ regs["0"] = entry.regs["0"]

\* C5: get_global returns None when the host raises E121, the host's value
\* when the evaluation succeeds, and raises every other host error unchanged.
C5_GetGlobal ==
    (pc = "done" /\ helper = "get_global") =>
        /\ (~args.host.ok /\ args.host.code = "E121") =>
               (outcome = "returned" /\ ret = None)
        /\ args.host.ok => (outcome = "returned" /\ ret = args.host.val)
        /\ (~args.host.ok /\ args.host.code # "E121") =>
               (outcome = "raised" /\ ret = args.host.msg)

\* C3: across register_fn (through key_map, abbrev, file_is) and
\* dispatch_mapped_function, no key leaves _mapped_functions and each key
\* stays bound to the callable it was registered with.
C3_TableGrows ==
    [][\A k \in DOMAIN mapped : k \in DOMAIN mapped' /\ mapped'[k] = mapped[k]]_vars

\* a dispatch has run with two callables in the table, after Python has freed
\* a function and reused its address
C3_Witness ==
    /\ pc = "done" /\ helper = "dispatch" /\ outcome = "returned"
    /\ Cardinality(DOMAIN mapped) >= 2
    /\ \E k \in DOMAIN mapped : mapped[k].serial > MaxAddr

\* C4: a key the library has embedded in a host command is in the table ever
\* after, bound to the callable the command was issued for; a dispatch of it
\* calls that callable and returns its result; the dispatch raises only for a
\* key register_fn never returned.
C4_EmbeddedKeysDispatch ==
    /\ \A k \in DOMAIN hostBound :
           k \in DOMAIN mapped /\ mapped[k] = hostBound[k]
    /\ (pc = "done" /\ helper = "dispatch") =>
           /\ args.key \in DOMAIN hostBound =>
                  /\ outcome = "returned"
                  /\ ret.called = hostBound[args.key]
                  /\ ret.value = CallResult(hostBound[args.key])
           /\ outcome = "raised" => args.key \notin returnedKeys

\* the host has dispatched a key embedded earlier, after later registrations
C4_Witness ==
    /\ pc = "done" /\ helper = "dispatch" /\ outcome = "returned"
    /\ args.key \in DOMAIN hostBound
    /\ Cardinality(DOMAIN hostBound) >= 2
    /\ \E k \in DOMAIN hostBound : hostBound[k].serial > ret.called.serial

\* the command is the buffer-local form of the method's host command
BufferLocalForm(h, cmd) ==
    CASE h = "ctx.abbrev" -> cmd[1] = "iabbrev" /\ cmd[2] = " <buffer>"
      [] h = "ctx.let" -> cmd[1] = "let " /\ cmd[2] = NS_BUFFER
      [] h = "ctx.set_option" -> cmd[1] = "setlocal"
      [] h = "ctx.key_map" -> FirstIndex(cmd, " <buffer>") # 0

\* C8: each of ctx.abbrev, ctx.let, ctx.set_option and ctx.key_map completes
\* without raising and sends the buffer-local form of its host command.
C8_ContextBufferLocal ==
    (pc = "done" /\ helper \in {"ctx.abbrev", "ctx.let", "ctx.set_option",
                                "ctx.key_map"}) =>
        /\ outcome = "returned"
        /\ Len(issued) = 1
        /\ BufferLocalForm(helper, issued[1])
====
